---- MODULE Spec2Model ----
(***************************************************************************)
(* Model of the IUU alerting service.                                      *)
(*                                                                         *)
(*   app/api/worker.py   the ingestion loop: fetch a window of events,     *)
(*                       geofence, licence lookup, score, threshold,       *)
(*                       insert into iuu_alerts.                           *)
(*   app/api/main.py     the websocket handler that polls iuu_alerts by    *)
(*                       identifier and forwards the rows.                 *)
(*                                                                         *)
(* Probabilities are modelled in hundredths (0.60 is 60).  An exception    *)
(* that nothing catches ends the coroutine that raised it: worker.py has   *)
(* no try/except, so it ends main() and, through asyncio.run, the process. *)
(***************************************************************************)
EXTENDS Integers, Sequences, FiniteSets, TLC

VARIABLES
    EEZ,        \* worker.py global EEZ: the cached polygon, or None
    wpc,        \* where main() is: "start", "fetch", "loop", "sleep", "terminated"
    wexc,       \* the exception that ended main(), "none" while it runs
    fetched,    \* number of entries the event source has returned so far
    held,       \* payload["total"]: number of entries the event source
                \* holds for the window of the current cycle
    total,      \* number of entries of the page the current cycle fetched
    idx,        \* number of entries the for loop has taken from that page
    ev,         \* the loop variable ev: the entry taken last
    nreq,       \* number of insert requests main() has issued
    calls,      \* the calls the last pass of the for loop made, among
                \* "lookup", "vectorize", "score" and "insert"
    gpc,        \* per call of get_eez_polygon(), where it is: "idle" before
                \* the call, "fetch", "close", "done", "raised"
    gret,       \* per call of get_eez_polygon(), the value returned
    gfetches,   \* number of requests made to the geospatial service
    tpc,        \* the timing of main(): "fetch", "run", "sleep"
    now,        \* the wall clock, in ticks of five minutes
    since,      \* the local variable since of the current cycle
    startDate,  \* the tick at which the day of start-date begins
    lastFetch,  \* the clock at the fetch of the current cycle, -1 before
    prevFetch,  \* the clock at the fetch of the cycle before, -1 before
    dur,        \* ticks the last finished cycle took from fetch to sleep
    wins,       \* number of windows computed
    licences,   \* table licences: the set of mmsi values stored
    alerts,     \* table iuu_alerts: the rows, in insertion order
    nextId,     \* the identifier the store gives to the next insert request
    req,        \* the body of the last insert request issued to iuu_alerts
    ppc,        \* per connection, where ws_alerts() is: "idle" before the
                \* connect, "query", "send", "sleep", "ended"
    pexc,       \* per connection, the exception that ended ws_alerts()
    last,       \* per connection, the local variable last
    rows,       \* per connection, the rows of the current query still to send
    sent,       \* per connection, the identifiers the subscriber was sent
    open        \* per connection, TRUE while the subscriber is connected

gvars == <<gpc, gret, gfetches>>
tvars == <<tpc, now, since, startDate, lastFetch, prevFetch, dur, wins>>
wvars == <<EEZ, wpc, wexc, fetched, held, total, idx, ev, nreq, calls,
           gpc, gret, gfetches,
           tpc, now, since, startDate, lastFetch, prevFetch, dur, wins>>
svars == <<licences, alerts, nextId, req>>
pvars == <<ppc, pexc, last, rows, sent, open>>
vars  == <<EEZ, wpc, wexc, fetched, held, total, idx, ev, nreq, calls,
           gpc, gret, gfetches,
           tpc, now, since, startDate, lastFetch, prevFetch, dur, wins,
           licences, alerts,
           nextId, req, ppc, pexc, last, rows, sent, open>>

----------------------------------------------------------------------------
(* Bounds of the model *)

\* entries the event source returns in all, over the pages of all cycles
MaxEvents == 3
\* entries one request to the event source returns at most; stands for
\* limit=5000
FetchLimit == 2
\* ticks of five minutes one cycle takes at most from its fetch to its sleep
MaxDur == 2
\* windows that are computed
MaxWindows == 3
\* rows one publisher query returns at most; stands for limit(100)
QueryLimit == 2

(* Program constants *)

\* THR = 0.60, in hundredths
THR == 60
\* timedelta(minutes=15), in ticks of five minutes
LOOKBACK == 3
\* asyncio.sleep(600), in ticks of five minutes
SLEEP == 2
\* since.date(): a day, in ticks of five minutes
DayTicks == 288

----------------------------------------------------------------------------
(* Geometry: the EEZ is an axis-parallel square, positions are grid points *)

None == [kind |-> "none", lo |-> 0, hi |-> 0]
Square == [kind |-> "polygon", lo |-> 0, hi |-> 2]
\* the region as the service gives it after a revision of its boundary
Wide == [kind |-> "polygon", lo |-> 0, hi |-> 4]
\* the geometries the geospatial service returns for the region
Regions == {Square, Wide}

PIn   == [lat |-> 1, lon |-> 1]
PEdge == [lat |-> 0, lon |-> 1]
POut  == [lat |-> 3, lon |-> 1]
Positions == {PIn, PEdge, POut}

Interior(poly, p) ==
    /\ poly.lo < p.lat /\ p.lat < poly.hi
    /\ poly.lo < p.lon /\ p.lon < poly.hi

OnBoundary(poly, p) ==
    /\ poly.lo <= p.lat /\ p.lat <= poly.hi
    /\ poly.lo <= p.lon /\ p.lon <= poly.hi
    /\ ~Interior(poly, p)

\* the spatial filter left out: every position passes
ContainsAny(poly, p) == TRUE

\* eez.contains(Point(lon, lat)): shapely's contains holds for the points of
\* the interior only
Contains(poly, p) == Interior(poly, p)

----------------------------------------------------------------------------
(* Events *)

Vessels == {"V1", "V2"}
Times == {"T1"}
Scores == {THR - 1, THR}
\* the keys main() and vectorize() read with ev[...]; "features" stands for
\* the keys "timestamp", "lat" and "lon" that vectorize() reads
Keys == {"position", "vessel", "features", "start"}

\* An entry of a page: the keys it carries, its position, its vessel's
\* ssvid, its start time and the probability the classifier gives for its
\* feature vector.
\* An entry lacks at most one key; a position or vessel it does not carry
\* is written with a fixed value that nothing reads.
Events ==
    { e \in [keys : {Keys} \cup {Keys \ {k} : k \in Keys},
             position : Positions, ssvid : Vessels, start : Times,
             score : Scores] :
        /\ "position" \notin e.keys => e.position = PIn
        /\ "vessel" \notin e.keys => e.ssvid = "V1"
        /\ "features" \notin e.keys => e.score = THR }

NoEvent == [keys |-> {}, position |-> PIn, ssvid |-> "V1", start |-> "T1",
            score |-> THR]

\* the entries the event source returns when the publisher is explored too
StreamEvents ==
    { e \in Events : e.keys = Keys /\ e.ssvid = "V2"
                     /\ e.position \in {PIn, POut} /\ e.score = THR }

----------------------------------------------------------------------------
(* The ingestion loop, worker.py main() *)

\* the lookup never finds a row, as with a filter on the wrong column
ExistsNever(lic, ssvid) == FALSE

\* exists = SUPA.table("licences").select("mmsi").eq("mmsi", ssvid)...data
\* is a non-empty list exactly when the registry holds the ssvid
Exists(lic, ssvid) == ssvid \in lic

\* the comparison taken as exclusive of the threshold
BelowOrAtThreshold(prob) == prob <= THR

\* if prob < THR: continue
BelowThreshold(prob) == prob < THR

\* vectorize(e) reads e["timestamp"], e["lat"] and e["lon"] with e[...]:
\* it raises KeyError for an entry that does not carry them at its top level
VectorizeRaises(e) == "features" \notin e.keys

\* What the body of the for loop does with entry e, in the order of the
\* code: "KeyError" and "APIError" are the exceptions raised, "outside",
\* "licensed" and "below" the three continue statements, "insert" the
\* call of insert.  lookupOk tells whether the licences query succeeds.
Disposition(e, poly, lic, lookupOk) ==
    IF "position" \notin e.keys THEN "KeyError"
    ELSE IF ~Contains(poly, e.position) THEN "outside"
    ELSE IF "vessel" \notin e.keys THEN "KeyError"
    ELSE IF ~lookupOk THEN "APIError"
    ELSE IF Exists(lic, e.ssvid) THEN "licensed"
    ELSE IF VectorizeRaises(e) THEN "KeyError"
    ELSE IF BelowThreshold(e.score) THEN "below"
    ELSE IF "start" \notin e.keys THEN "KeyError"
    ELSE "insert"

\* the licences query issued before the spatial filter
CallsLookupFirst(e, poly, lic, lookupOk) ==
    IF "position" \notin e.keys \/ "vessel" \notin e.keys THEN {}
    ELSE IF ~lookupOk \/ Exists(lic, e.ssvid) \/ ~Contains(poly, e.position)
    THEN {"lookup"}
    ELSE IF VectorizeRaises(e) THEN {"lookup", "vectorize"}
    ELSE IF BelowThreshold(e.score) \/ "start" \notin e.keys
    THEN {"lookup", "vectorize", "score"}
    ELSE {"lookup", "vectorize", "score", "insert"}

\* The calls one pass of the body of the for loop makes for entry e, in
\* the order of the code: the licences query (113-116), vectorize and
\* sess.run (120), insert (124-130).
CallsMade(e, poly, lic, lookupOk) ==
    IF "position" \notin e.keys \/ ~Contains(poly, e.position)
       \/ "vessel" \notin e.keys
    THEN {}
    ELSE IF ~lookupOk \/ Exists(lic, e.ssvid) THEN {"lookup"}
    ELSE IF VectorizeRaises(e) THEN {"lookup", "vectorize"}
    ELSE IF BelowThreshold(e.score) \/ "start" \notin e.keys
    THEN {"lookup", "vectorize", "score"}
    ELSE {"lookup", "vectorize", "score", "insert"}

\* the dictionary main() passes to insert
Body(e) == [mmsi |-> e.ssvid, ts |-> e.start, lat |-> e.position.lat,
            lon |-> e.position.lon, prob |-> e.score]

NoBody == [mmsi |-> "", ts |-> "", lat |-> 0, lon |-> 0, prob |-> 0]

\* the row the store keeps for an accepted insert
Row(id, b) == [id |-> id, mmsi |-> b.mmsi, ts |-> b.ts, lat |-> b.lat,
               lon |-> b.lon, prob |-> b.prob]

\* a store that replaces the row of the same vessel and start time
InsertUpsert(t, r) ==
    Append(SelectSeq(t, LAMBDA x : ~(x.mmsi = r.mmsi /\ x.ts = r.ts)), r)

\* table("iuu_alerts").insert(...): the store adds the row after the rows
\* it holds
Insert(t, r) == Append(t, r)

\* What an insert request meets: the store keeps the row ("stored"), the
\* store refuses it, e.g. by a uniqueness constraint, after drawing an
\* identifier for it ("rejected"), or the request does not get through
\* ("unreachable").  The last two raise in execute().
SinkOutcomes == {"stored", "rejected", "unreachable"}

\* the test taken the wrong way round: the cache is returned as it is
TruthyAlways(poly) == TRUE

\* the test left out: every call fetches
TruthyNever(poly) == FALSE

\* if EEZ: a geometry that is not empty is true, None is false; the
\* regions of the service are polygons that are not empty
Truthy(poly) == poly.kind = "polygon"

\* eez = await get_eez_polygon(), the one call main() makes, from the call
\* to the return
GetEezPolygon ==
    /\ wpc = "start"
    /\ \E got \in BOOLEAN :
          IF Truthy(EEZ) \/ got
          THEN /\ EEZ' = IF Truthy(EEZ) THEN EEZ ELSE Square
               /\ wpc' = "fetch"
               /\ wexc' = wexc
          ELSE /\ EEZ' = EEZ
               /\ wpc' = "terminated"
               /\ wexc' = "ClientError"
    /\ UNCHANGED <<fetched, held, total, idx, ev, nreq, calls>>
    /\ UNCHANGED gvars
    /\ UNCHANGED tvars
    /\ UNCHANGED svars
    /\ UNCHANGED pvars

\* the entries of the one request fetch_events makes, with offset 0, when
\* the source holds h entries for the window
PageSize(h) == IF h < FetchLimit THEN h ELSE FetchLimit

\* payload = await fetch_events(since), up to the first entry of the page;
\* a page without entries leads straight to the sleep.  h is the number of
\* entries the source holds for the window, -1 for a request that fails.
FetchEvents ==
    /\ wpc = "fetch"
    /\ \E h \in -1 .. (MaxEvents - fetched) :
          IF h < 0
          THEN /\ wpc' = "terminated"
               /\ wexc' = "RuntimeError"
               /\ UNCHANGED <<fetched, held, total, idx>>
          ELSE /\ wpc' = IF PageSize(h) = 0 THEN "sleep" ELSE "loop"
               /\ wexc' = wexc
               /\ fetched' = fetched + PageSize(h)
               /\ held' = h
               /\ total' = PageSize(h)
               /\ idx' = 0
    /\ UNCHANGED <<EEZ, ev, nreq, calls>>
    /\ UNCHANGED gvars
    /\ UNCHANGED tvars
    /\ UNCHANGED svars
    /\ UNCHANGED pvars

\* one pass of the body of "for ev in payload.get('entries', [])", with
\* the entry drawn from E; after the last entry the loop is left and
\* main() starts asyncio.sleep(600)
ProcessEvent(E) ==
    /\ wpc = "loop"
    /\ idx < total
    /\ \E e \in E, lookupOk \in BOOLEAN, sink \in SinkOutcomes :
          LET d == Disposition(e, EEZ, licences, lookupOk)
              exc == IF d \in {"KeyError", "APIError"} THEN d
                     ELSE IF d = "insert" /\ sink # "stored" THEN "APIError"
                     ELSE "none"
          IN  \* an outcome is drawn only for a request that is made
              /\ Disposition(e, EEZ, licences, FALSE) # "APIError" => lookupOk
              /\ d # "insert" => sink = "stored"
              /\ ev' = e
              /\ idx' = idx + 1
              /\ nreq' = IF d = "insert" THEN nreq + 1 ELSE nreq
              /\ calls' = CallsMade(e, EEZ, licences, lookupOk)
              /\ req' = IF d = "insert" THEN Body(e) ELSE req
              /\ alerts' = IF d = "insert" /\ sink = "stored"
                            THEN Insert(alerts, Row(nextId, Body(e)))
                            ELSE alerts
              /\ nextId' = IF d = "insert" /\ sink # "unreachable"
                            THEN nextId + 1 ELSE nextId
              /\ wexc' = exc
              /\ wpc' = IF exc # "none" THEN "terminated"
                         ELSE IF idx + 1 = total THEN "sleep" ELSE "loop"
    /\ UNCHANGED <<EEZ, fetched, held, total, licences>>
    /\ UNCHANGED gvars
    /\ UNCHANGED tvars
    /\ UNCHANGED pvars

\* await asyncio.sleep(600) returns
Wake ==
    /\ wpc = "sleep"
    /\ wpc' = "fetch"
    /\ UNCHANGED <<EEZ, wexc, fetched, held, total, idx, ev, nreq, calls>>
    /\ UNCHANGED gvars
    /\ UNCHANGED tvars
    /\ UNCHANGED svars
    /\ UNCHANGED pvars

\* the licences table is changed by its owner
RegistryChange ==
    /\ \E lic \in SUBSET Vessels : lic # licences /\ licences' = lic
    /\ UNCHANGED wvars
    /\ UNCHANGED <<alerts, nextId, req>>
    /\ UNCHANGED pvars

Worker(E) == GetEezPolygon \/ FetchEvents \/ ProcessEvent(E) \/ Wake

----------------------------------------------------------------------------
(* The timing of main(): when each cycle computes its window *)

\* a lookback no longer than the sleep
SinceShort(t) == t - SLEEP

\* since = datetime.now(timezone.utc) - timedelta(minutes=15)
Since(t) == t - LOOKBACK

\* "start-date": since.date().isoformat(): the beginning of the day of t
DayStart(t) == t - (t % DayTicks)

\* the clocks a run of main() may start at: in the middle of a day and
\* shortly before midnight
StartTimes == {DayTicks \div 2} \cup ((DayTicks - 5) .. (DayTicks - 1))

\* the top of the while loop: since is computed and the request is made
\* with the dates of since and of now
TimeFetch ==
    /\ tpc = "fetch"
    /\ wins < MaxWindows
    /\ wins' = wins + 1
    /\ since' = Since(now)
    /\ startDate' = DayStart(Since(now))
    /\ prevFetch' = lastFetch
    /\ lastFetch' = now
    /\ tpc' = "run"
    /\ UNCHANGED <<now, dur>>
    /\ UNCHANGED <<EEZ, wpc, wexc, fetched, held, total, idx, ev, nreq, calls>>
    /\ UNCHANGED gvars
    /\ UNCHANGED svars
    /\ UNCHANGED pvars

\* the response arrives and the entries are processed: the cycle takes d
\* ticks up to its sleep
TimeRun ==
    /\ tpc = "run"
    /\ \E d \in 0 .. MaxDur : now' = now + d /\ dur' = d
    /\ tpc' = "sleep"
    /\ UNCHANGED <<since, startDate, lastFetch, prevFetch, wins>>
    /\ UNCHANGED <<EEZ, wpc, wexc, fetched, held, total, idx, ev, nreq, calls>>
    /\ UNCHANGED gvars
    /\ UNCHANGED svars
    /\ UNCHANGED pvars

\* await asyncio.sleep(600)
TimeSleep ==
    /\ tpc = "sleep"
    /\ now' = now + SLEEP
    /\ tpc' = "fetch"
    /\ UNCHANGED <<since, startDate, lastFetch, prevFetch, dur, wins>>
    /\ UNCHANGED <<EEZ, wpc, wexc, fetched, held, total, idx, ev, nreq, calls>>
    /\ UNCHANGED gvars
    /\ UNCHANGED svars
    /\ UNCHANGED pvars

TimeNext == TimeFetch \/ TimeRun \/ TimeSleep

----------------------------------------------------------------------------
(* get_eez_polygon() called more than once: each call is a coroutine that   *)
(* is suspended while the request is under way and while the session is    *)
(* closed                                                                  *)

Callers == {"g1", "g2", "g3"}

\* the call, up to the return of the cached polygon or to the request
GeoCall(c) ==
    /\ gpc[c] = "idle"
    /\ IF Truthy(EEZ)
       THEN /\ gpc' = [gpc EXCEPT ![c] = "done"]
            /\ gret' = [gret EXCEPT ![c] = EEZ]
            /\ gfetches' = gfetches
       ELSE /\ gpc' = [gpc EXCEPT ![c] = "fetch"]
            /\ gret' = gret
            /\ gfetches' = gfetches + 1
    /\ UNCHANGED <<EEZ, wpc, wexc, fetched, held, total, idx, ev, nreq, calls>>
    /\ UNCHANGED tvars
    /\ UNCHANGED svars
    /\ UNCHANGED pvars

\* the response arrives: raise_for_status, r.json(), EEZ = shape(geo); a
\* response that is no success, or holds no feature, raises
GeoFetched(c) ==
    /\ gpc[c] = "fetch"
    /\ \E ok \in BOOLEAN, geo \in Regions :
          IF ok
          THEN /\ EEZ' = geo
               /\ gpc' = [gpc EXCEPT ![c] = "close"]
          ELSE /\ EEZ' = EEZ
               /\ gpc' = [gpc EXCEPT ![c] = "raised"]
    /\ UNCHANGED <<wpc, wexc, fetched, held, total, idx, ev, nreq, calls>>
    /\ UNCHANGED tvars
    /\ UNCHANGED <<gret, gfetches>>
    /\ UNCHANGED svars
    /\ UNCHANGED pvars

\* the session is closed: return EEZ
GeoReturn(c) ==
    /\ gpc[c] = "close"
    /\ gpc' = [gpc EXCEPT ![c] = "done"]
    /\ gret' = [gret EXCEPT ![c] = EEZ]
    /\ UNCHANGED <<EEZ, wpc, wexc, fetched, held, total, idx, ev, nreq, calls>>
    /\ UNCHANGED tvars
    /\ UNCHANGED gfetches
    /\ UNCHANGED svars
    /\ UNCHANGED pvars

GeoNext == \E c \in Callers : GeoCall(c) \/ GeoFetched(c) \/ GeoReturn(c)

----------------------------------------------------------------------------
(* The stream publisher, main.py ws_alerts(), one run per connection *)

Conns == {"a", "b"}

\* the cursor compared with gte instead of gt
Gte(t, n) == SelectSeq(t, LAMBDA r : r.id >= n)

\* the rows of t whose id is greater than n: .gt("id", last)
Gt(t, n) == SelectSeq(t, LAMBDA r : r.id > n)

\* r put into the sequence t, which is in ascending order of id
RECURSIVE InsertById(_, _)
InsertById(r, t) ==
    IF t = <<>> THEN <<r>>
    ELSE IF r.id <= Head(t).id THEN <<r>> \o t
    ELSE <<Head(t)>> \o InsertById(r, Tail(t))

\* the rows of t in ascending order of id: .order("id")
RECURSIVE OrderById(_)
OrderById(t) ==
    IF t = <<>> THEN <<>> ELSE InsertById(Head(t), OrderById(Tail(t)))

\* the last n rows of t
LimitLast(t, n) == SubSeq(t, IF Len(t) < n THEN 1 ELSE Len(t) - n + 1, Len(t))

\* the first n rows of t: .limit(100)
Limit(t, n) == SubSeq(t, 1, IF Len(t) < n THEN Len(t) ELSE n)

\* SUPA.table("iuu_alerts").select("*").gt("id", last).order("id")
\*     .limit(100).execute().data
Select(t, n) == Limit(OrderById(Gt(t, n)), QueryLimit)

\* the cursor of one connection continued on the next
SharedCursor(c) ==
    IF \E d \in Conns : last[d] > 0
    THEN CHOOSE n \in {last[d] : d \in Conns} :
            \A d \in Conns : last[d] <= n
    ELSE 0

\* last = 0
InitialCursor(c) == 0

\* the cursor left one short of the row sent
CursorBehind(r) == r.id - 1

\* last = r["id"]
Cursor(r) == r.id

\* await ws.accept(); last = 0
Accept(c) ==
    /\ ppc[c] = "idle"
    /\ open' = [open EXCEPT ![c] = TRUE]
    /\ last' = [last EXCEPT ![c] = InitialCursor(c)]
    /\ ppc' = [ppc EXCEPT ![c] = "query"]
    /\ UNCHANGED <<pexc, rows, sent>>
    /\ UNCHANGED wvars
    /\ UNCHANGED svars

\* rows = (...).data, up to the first send_text or, when there is no row,
\* to asyncio.sleep(5); a query that fails raises in execute()
Query(c) ==
    /\ ppc[c] = "query"
    /\ \E ok \in BOOLEAN :
          IF ok
          THEN /\ rows' = [rows EXCEPT ![c] = Select(alerts, last[c])]
               /\ ppc' = [ppc EXCEPT ![c] =
                             IF Select(alerts, last[c]) = <<>>
                             THEN "sleep" ELSE "send"]
               /\ pexc' = pexc
          ELSE /\ rows' = rows
               /\ ppc' = [ppc EXCEPT ![c] = "ended"]
               /\ pexc' = [pexc EXCEPT ![c] = "APIError"]
    /\ UNCHANGED <<last, sent, open>>
    /\ UNCHANGED wvars
    /\ UNCHANGED svars

\* await ws.send_text(json.dumps(r)); last = r["id"], for the first row
\* still to send; send_text raises once the subscriber has disconnected
Send(c) ==
    /\ ppc[c] = "send"
    /\ IF open[c]
       THEN /\ sent' = [sent EXCEPT ![c] = Append(@, Head(rows[c]).id)]
            /\ last' = [last EXCEPT ![c] = Cursor(Head(rows[c]))]
            /\ rows' = [rows EXCEPT ![c] = Tail(@)]
            /\ ppc' = [ppc EXCEPT ![c] =
                          IF Tail(rows[c]) = <<>> THEN "sleep" ELSE "send"]
            /\ pexc' = pexc
       ELSE /\ ppc' = [ppc EXCEPT ![c] = "ended"]
            /\ pexc' = [pexc EXCEPT ![c] = "WebSocketDisconnect"]
            /\ UNCHANGED <<last, rows, sent>>
    /\ UNCHANGED open
    /\ UNCHANGED wvars
    /\ UNCHANGED svars

\* await asyncio.sleep(5) returns
WakeConn(c) ==
    /\ ppc[c] = "sleep"
    /\ ppc' = [ppc EXCEPT ![c] = "query"]
    /\ UNCHANGED <<pexc, last, rows, sent, open>>
    /\ UNCHANGED wvars
    /\ UNCHANGED svars

\* the subscriber closes the connection
Disconnect(c) ==
    /\ open[c]
    /\ open' = [open EXCEPT ![c] = FALSE]
    /\ UNCHANGED <<ppc, pexc, last, rows, sent>>
    /\ UNCHANGED wvars
    /\ UNCHANGED svars

Publisher(c) == Accept(c) \/ Query(c) \/ Send(c) \/ WakeConn(c)

----------------------------------------------------------------------------
InitRest ==
    /\ EEZ = None
    /\ wpc = "start"
    /\ wexc = "none"
    /\ fetched = 0
    /\ held = 0
    /\ total = 0
    /\ idx = 0
    /\ ev = NoEvent
    /\ nreq = 0
    /\ calls = {}
    /\ gpc = [c \in Callers |-> "idle"]
    /\ gret = [c \in Callers |-> None]
    /\ gfetches = 0
    /\ licences \in SUBSET Vessels
    /\ alerts = <<>>
    /\ nextId = 1
    /\ req = NoBody
    /\ ppc = [c \in Conns |-> "idle"]
    /\ pexc = [c \in Conns |-> "none"]
    /\ last = [c \in Conns |-> 0]
    /\ rows = [c \in Conns |-> <<>>]
    /\ sent = [c \in Conns |-> <<>>]
    /\ open = [c \in Conns |-> FALSE]
    /\ tpc = "fetch"
    /\ since = 0
    /\ startDate = 0
    /\ lastFetch = -1
    /\ prevFetch = -1
    /\ dur = 0
    /\ wins = 0

Init == InitRest /\ now = DayTicks \div 2

\* main() started at any of the clocks StartTimes
InitWindow == InitRest /\ now \in StartTimes

Next == Worker(Events) \/ RegistryChange

Spec == Init /\ [][Next]_vars

\* the ingestion loop and the publisher's connections side by side
StreamNext ==
    \/ Worker(StreamEvents)
    \/ \E c \in Conns : Publisher(c) \/ Disconnect(c)

SpecStream == Init /\ [][StreamNext]_vars

\* the event loop runs every coroutine that is ready: a connection's
\* handler that can take a step eventually takes it
FairStream ==
    SpecStream /\ \A c \in Conns : WF_vars(Query(c) \/ Send(c) \/ WakeConn(c))

\* one connection of the publisher, next to the ingestion loop
Subscriber == CHOOSE c \in Conns : TRUE

SubscriberNext ==
    \/ Worker(StreamEvents)
    \/ Publisher(Subscriber)
    \/ Disconnect(Subscriber)

\* the ingestion loop and one connection, whose handler is run when it is
\* ready
FairSubscriber ==
    /\ Init /\ [][SubscriberNext]_vars
    /\ WF_vars(Query(Subscriber) \/ Send(Subscriber) \/ WakeConn(Subscriber))

\* the timing of main() alone
SpecWindow == InitWindow /\ [][TimeNext]_vars

\* calls of get_eez_polygon() alone
SpecGeo == Init /\ [][GeoNext]_vars

----------------------------------------------------------------------------
(* Vocabulary of the properties *)

\* p lies outside the polygon: neither in its interior nor on its edge
Outside(poly, p) == ~Interior(poly, p) /\ ~OnBoundary(poly, p)

\* the step takes one entry of the page through the body of the for loop
Processes == idx' = idx + 1

\* the step issues k insert requests to iuu_alerts
Inserts(k) == nreq' = nreq + k

IsPrefix(s, t) == Len(s) <= Len(t) /\ SubSeq(t, 1, Len(s)) = s

StrictlyIncreasing(s) == \A i \in 1 .. Len(s) - 1 : s[i] < s[i + 1]

Ids(t) == [i \in 1 .. Len(t) |-> t[i].id]

\* an alert for the entry's vessel and start time is stored
Alerted(e) == \E i \in 1 .. Len(alerts) :
                 alerts[i].mmsi = e.ssvid /\ alerts[i].ts = e.start

----------------------------------------------------------------------------
(* Properties of the ingestion loop, under Spec *)

\* C1: processing an entry whose position lies outside the EEZ polygon
\* issues no insert and leaves iuu_alerts as it is, whatever its score.
C1_OutsideNeverAlerted ==
    [][ (Processes /\ "position" \in ev'.keys /\ Outside(EEZ, ev'.position))
        => (Inserts(0) /\ alerts' = alerts) ]_vars

\* an entry outside the polygon, unlicensed and scored at or above the
\* threshold, has been processed
C1_Witness ==
    /\ idx > 0 /\ wexc = "none"
    /\ ev.keys = Keys /\ Outside(EEZ, ev.position)
    /\ ev.score >= THR /\ ev.ssvid \notin licences

\* C2: processing an entry whose ssvid the licences table holds at the
\* time of the lookup issues no insert and leaves iuu_alerts as it is,
\* wherever the entry lies and whatever its score.
C2_LicensedNeverAlerted ==
    [][ (Processes /\ "vessel" \in ev'.keys /\ ev'.ssvid \in licences)
        => (Inserts(0) /\ alerts' = alerts) ]_vars

\* the first entry of the run, inside the polygon and scored at or above
\* the threshold, was passed over for its licence: nothing was raised and
\* no insert was issued
C2_Witness ==
    /\ fetched = 1 /\ idx = 1 /\ wexc = "none" /\ nreq = 0
    /\ ev.keys = Keys /\ Interior(EEZ, ev.position)
    /\ ev.score >= THR /\ ev.ssvid \in licences

\* C3: for an entry that carries the keys the loop reads, lies inside the
\* polygon and whose ssvid the licences query does not find, a score at or
\* above the threshold (the threshold itself included) makes the step issue
\* exactly one insert, with the entry's ssvid, position and score, of which
\* the store keeps at most one row; a score below the threshold makes the
\* step issue no insert.  (A licences query that fails raises before the
\* score is taken: nothing is issued then.)
C3_ThresholdInclusive ==
    [][ Processes =>
        /\ ( /\ ev'.keys = Keys /\ Interior(EEZ, ev'.position)
             /\ ev'.ssvid \notin licences /\ ev'.score >= THR
             /\ ~(wexc' = "APIError" /\ Inserts(0)) )
           => /\ Inserts(1)
              /\ req' = Body(ev')
              /\ \/ alerts' = alerts
                 \/ alerts' = Append(alerts, Row(nextId, Body(ev')))
        /\ ("features" \in ev'.keys /\ ev'.score < THR)
           => (Inserts(0) /\ alerts' = alerts) ]_vars

\* an entry scored exactly at the threshold has been stored as an alert
C3_Witness ==
    /\ idx > 0 /\ wexc = "none" /\ nreq = 1
    /\ ev.score = THR /\ req = Body(ev)
    /\ alerts = <<Row(1, Body(ev))>>

\* C4: a failed fetch does not end the ingestion loop.
C4_FetchFailureSurvived == ~(wpc = "terminated" /\ wexc = "RuntimeError")

\* C5: a failure in processing one entry (a key it lacks, an insert or a
\* lookup that fails) does not end the cycle or the loop.
C5_EventFailureSurvived ==
    ~(wpc = "terminated" /\ idx > 0 /\ wexc \in {"KeyError", "APIError"})

\* C6: processing again an entry for which an earlier cycle stored an
\* alert (the entry is the first of its page, so the alert is not of this
\* cycle) leaves every stored row in place and does not end the loop,
\* whether the store keeps the second insert or refuses it.
C6_ReprocessingHarmless ==
    [][ (Processes /\ idx = 0 /\ Alerted(ev') /\ Inserts(1))
        => (IsPrefix(alerts, alerts') /\ wpc' # "terminated") ]_vars

----------------------------------------------------------------------------
(* Properties of the stream publisher, under SpecStream *)

\* C7: on each connection the identifiers sent are strictly increasing,
\* so none is sent twice.
C7_SentStrictlyIncreasing == \A c \in Conns : StrictlyIncreasing(sent[c])

\* a connection was sent every stored row, more rows than one query
\* returns
C7_Witness ==
    \E c \in Conns : Len(sent[c]) > QueryLimit /\ Len(sent[c]) = Len(alerts)

\* C8: when a poll is complete (the handler sleeps) the cursor is the
\* identifier sent last on the connection, 0 if none was sent; a query
\* that finds no row above the cursor sends nothing, leaves the cursor
\* and goes to sleep.
C8_CursorIsLastSent ==
    /\ [](\A c \in Conns : ppc[c] = "sleep" =>
             last[c] = IF sent[c] = <<>> THEN 0 ELSE sent[c][Len(sent[c])])
    /\ [][ \A c \in Conns :
             ( /\ ppc[c] = "query" /\ ppc'[c] \notin {"query", "ended"}
               /\ \A i \in 1 .. Len(alerts) : alerts[i].id <= last[c] )
             => /\ ppc'[c] = "sleep"
                /\ sent'[c] = sent[c] /\ last'[c] = last[c] ]_vars

\* a connection has been sent every stored row, at least two, and sleeps
C8_Witness ==
    \E c \in Conns :
       /\ ppc[c] = "sleep" /\ Len(alerts) >= 2
       /\ sent[c] = Ids(alerts) /\ last[c] = alerts[Len(alerts)].id

\* C9: once the subscriber of a connection has disconnected, the handler
\* of the connection eventually ends.
C9_DisconnectEndsLoop ==
    \A c \in Conns : (ppc[c] # "idle" /\ ~open[c]) ~> (ppc[c] = "ended")

\* C10: every connection starts with cursor 0 and is sent the stored
\* alerts from the lowest identifier on, whatever the other connections
\* have been sent.
C10_HistoryFromStart ==
    \A c \in Conns :
       /\ (ppc[c] \in {"query", "sleep"} /\ sent[c] = <<>>) => last[c] = 0
       /\ IsPrefix(sent[c], Ids(alerts))

\* after one connection was sent two rows and its subscriber left,
\* another connection was sent the first stored row
C10_Witness ==
    \E c, d \in Conns :
       /\ c # d /\ ~open[c] /\ Len(sent[c]) >= 2
       /\ open[d] /\ Len(sent[d]) = 1 /\ sent[d][1] = alerts[1].id

----------------------------------------------------------------------------
(* Further properties of the ingestion loop, under Spec *)

\* C11: an entry whose position lies on the edge of the EEZ polygon is
\* treated as inside: when it carries the keys the loop reads, the
\* licences query answers and does not find its ssvid, and its score is at
\* or above the threshold, the step issues one insert for it.
C11_EdgeIsInside ==
    [][ ( /\ Processes
          /\ ev'.keys = Keys /\ OnBoundary(EEZ, ev'.position)
          /\ ev'.ssvid \notin licences /\ ev'.score >= THR
          /\ wexc' # "APIError" )
        => (Inserts(1) /\ req' = Body(ev')) ]_vars

\* C12: a cycle processes every entry the event source holds for its
\* window, not only those of the first page: when the loop has gone to
\* sleep, it has taken as many entries as the source holds.
C12_AllPagesProcessed == wpc = "sleep" => idx = held

\* C13: vectorize does not raise for an entry that carries vessel,
\* position and start time and that the loop passes to it (inside the
\* polygon, ssvid not found in licences).
C13_VectorizeTotal ==
    [][ ( /\ Processes
          /\ {"position", "vessel", "start"} \subseteq ev'.keys
          /\ Interior(EEZ, ev'.position) /\ ev'.ssvid \notin licences )
        => wexc' # "KeyError" ]_vars

\* C14: the steps of one pass run in the order geofence test, licences
\* lookup, vectorize and score, threshold, insert.  An entry that is not in
\* the interior of the polygon causes no lookup, no scoring and no insert;
\* an entry inside whose ssvid is in licences causes no scoring and no
\* insert; a later call is made only after the earlier ones.
C14_StepOrder ==
    [][ Processes =>
        /\ ("position" \in ev'.keys /\ ~Interior(EEZ, ev'.position))
           => (calls' = {} /\ Inserts(0) /\ alerts' = alerts)
        /\ ( /\ {"position", "vessel"} \subseteq ev'.keys
             /\ Interior(EEZ, ev'.position) /\ ev'.ssvid \in licences )
           => (calls' \subseteq {"lookup"} /\ Inserts(0) /\ alerts' = alerts)
        /\ "insert" \in calls' => "score" \in calls'
        /\ "score" \in calls' => "vectorize" \in calls'
        /\ "vectorize" \in calls' => "lookup" \in calls'
        /\ "insert" \in calls' <=> Inserts(1) ]_vars

\* the last pass looked up a licensed vessel's entry, inside the polygon
\* and scored at the threshold, and made no further call
C14_Witness ==
    /\ idx > 0 /\ wexc = "none" /\ calls = {"lookup"}
    /\ ev.keys = Keys /\ Interior(EEZ, ev.position)
    /\ ev.ssvid \in licences /\ ev.score >= THR

----------------------------------------------------------------------------
(* Properties of get_eez_polygon(), under SpecGeo *)

\* no call is between its request and its return
NoCallInFlight == \A c \in Callers : gpc[c] \notin {"fetch", "close"}

\* C15: in sequential use (no other call in flight), once a call has
\* fetched the polygon, a later call returns the cached polygon at once,
\* makes no request to the geospatial service, and the cache stays as it is.
C15_CacheWriteOnce ==
    [][ (EEZ.kind = "polygon" /\ NoCallInFlight)
        => /\ EEZ' = EEZ
           /\ gfetches' = gfetches
           /\ \A c \in Callers :
                 gpc'[c] # gpc[c] => (gpc'[c] = "done" /\ gret'[c] = EEZ) ]_vars

\* two calls have returned the polygon that one request fetched
C15_Witness ==
    /\ gfetches = 1
    /\ \E c, d \in Callers :
          /\ c # d /\ gpc[c] = "done" /\ gpc[d] = "done"
          /\ gret[c] = EEZ /\ gret[d] = EEZ /\ EEZ \in Regions

\* C16 as amended: when calls are interleaved at the request before the
\* cache is filled, each of them fetches and writes the cache, the last
\* write standing; every write stores a fetched polygon, every call that
\* returns returns a fetched polygon, never None, and once a call has
\* written the cache it holds a fetched polygon from then on.
C16_LastWriteWins ==
    /\ [](\A c \in Callers : gpc[c] = "done" => gret[c] \in Regions)
    /\ []((\E c \in Callers : gpc[c] \in {"close", "done"}) => EEZ \in Regions)
    /\ [][EEZ' # EEZ => EEZ' \in Regions]_vars

\* two interleaved calls have both fetched and returned, the first
\* returning what it wrote before the second wrote another polygon
C16_Witness ==
    /\ gfetches = 2
    /\ \E c, d \in Callers :
          /\ c # d /\ gpc[c] = "done" /\ gpc[d] = "done"
          /\ gret[c] # gret[d] /\ EEZ = gret[d]

\* C16: when two calls are interleaved at the request before the cache is
\* filled, the cache is written at most once, every caller returns a
\* fetched polygon and the cache ends holding a fetched polygon.
C16_WrittenAtMostOnce ==
    /\ [][EEZ.kind = "polygon" => EEZ' = EEZ]_vars
    /\ [](\A c \in Callers : gpc[c] = "done" => gret[c] \in Regions)
    /\ []((\E c \in Callers : gpc[c] \in {"close", "done"}) => EEZ \in Regions)

----------------------------------------------------------------------------
(* Properties of the windows, under SpecWindow *)

\* C17 as amended: each cycle computes its window at its start as
\* [now - LOOKBACK, now] and requests it from the beginning of the day of
\* now - LOOKBACK; when the cycle before took no longer from its fetch to
\* its sleep than LOOKBACK exceeds the sleep, the window reaches back to the
\* fetch of the cycle before, so the two windows meet and no time between
\* the two fetches is left out.
C17_WindowsMeet ==
    (tpc = "run" /\ prevFetch >= 0 /\ dur <= LOOKBACK - SLEEP)
    => /\ since = lastFetch - LOOKBACK
       /\ startDate <= since
       /\ since <= prevFetch

\* after a cycle that took as long as LOOKBACK exceeds the sleep, the next
\* window begins exactly at the fetch of that cycle
C17_Witness ==
    /\ tpc = "run" /\ prevFetch >= 0
    /\ dur = LOOKBACK - SLEEP /\ since = prevFetch

\* C17: the windows of consecutive cycles overlap and every time falls
\* inside the window of a cycle, also after a slow cycle: the window
\* requested reaches back to the fetch of the cycle before.
C17_NoGapEverSlow ==
    (tpc = "run" /\ prevFetch >= 0) => startDate <= prevFetch

----------------------------------------------------------------------------
(* Further properties of the store and the stream, under SpecStream *)

\* C18: whatever step is taken, by the ingestion loop or by a connection
\* of the publisher, the rows iuu_alerts held before are held after,
\* unchanged and in place: rows are only added, by the ingestion loop, and
\* the publisher's steps leave the table as it is.
C18_AppendOnly ==
    [][/\ IsPrefix(alerts, alerts')
       /\ (\E c \in Conns : Publisher(c) \/ Disconnect(c)) => alerts' = alerts]_vars

\* a row has been stored after a connection was sent an earlier one
C18_Witness ==
    /\ Len(alerts) >= 2
    /\ \E c \in Conns : /\ Len(sent[c]) >= 1
                        /\ last[c] < alerts[Len(alerts)].id

\* the i-th stored row has been sent on connection c
SentRow(c, i) ==
    i <= Len(alerts) /\ \E j \in 1 .. Len(sent[c]) : sent[c][j] = alerts[i].id

\* the i-th stored row has not been sent on connection c, whose subscriber
\* is connected and whose handler runs
Unsent(c, i) ==
    /\ i <= Len(alerts)
    /\ open[c] /\ ppc[c] \notin {"idle", "ended"}
    /\ ~SentRow(c, i)

\* C19: when the handlers are scheduled fairly, every stored row is
\* eventually sent on a connection, unless the subscriber disconnects or
\* a query of the handler fails; this holds also for a backlog of more
\* rows than one query returns.
C19_EventuallySent ==
    \A i \in 1 .. MaxEvents :
       Unsent(Subscriber, i)
          ~> \/ ~open[Subscriber] \/ ppc[Subscriber] = "ended"
             \/ SentRow(Subscriber, i)

\* a query has returned as many rows as it may and a stored row beyond
\* them waits for the next query
C19_Witness ==
    \E c \in Conns :
       /\ open[c] /\ ppc[c] = "send" /\ Len(rows[c]) = QueryLimit
       /\ Len(alerts) > Len(sent[c]) + QueryLimit

\* C20: a query of the publisher that fails does not end the handler of
\* the connection: the handler goes on to send or to sleep, with its
\* cursor as it was, and queries again.
C20_FailedReadRetried ==
    [][\A c \in Conns :
          ppc[c] = "query" => (ppc'[c] # "ended" /\ pexc'[c] = pexc[c])]_vars

====
